---- MODULE Spec2Model ----
(***************************************************************************)
(* News_Dashboard_backend: the fetch-article route (routes/fetchArticle),  *)
(* the summarize route (routes/summarize.js) with its tokenizer and        *)
(* TextRank, the create handler of the bookmarks route, and the news route.*)
(*                                                                         *)
(* A request is followed from its arrival to its response.  The            *)
(* synchronous part of a handler up to its next `await` is one action;     *)
(* the remote server, the deadline timer, the clock and the database are   *)
(* the other actions.  Strings that the code inspects character by         *)
(* character (host names, the text to summarize, provider names) are       *)
(* sequences of one-character strings.  SpecRank follows textRank          *)
(* iteration by iteration, SpecBookmarks interleaves several create        *)
(* requests, SpecNews follows the fallback over the news providers.        *)
(***************************************************************************)
EXTENDS Integers, Sequences, FiniteSets, TLC

VARIABLES
  endpoint,     \* "article" (fetch-article route) or "summarize"
  url,          \* req.query.url: NoUrl, EmptyUrl or the URL written by the caller
  rawText,      \* req.query.text: NoText or TextParam(characters)
  pc,           \* where the handler is: start, awaitHeaders, readBody, awaitText, done
  timer,        \* the setTimeout of the deadline: unset, armed, cleared, fired
  aborted,      \* controller.signal.aborted
  now,          \* milliseconds since the handler started
  fetchIssued,  \* fetch(url, ...) has been called
  upstream,     \* what the remote did: none, ok, non2xx, neterror
  nChunks,      \* chunks delivered by reader.read() so far
  bodyBytes,    \* bytes of the response body received so far
  textLen,      \* text.length of the text accumulated from the body
  thrown,       \* err.name of the exception the handler caught, or "none"
  status,       \* HTTP status of the response (0: no response yet)
  error,        \* the `error` member of the response ("" if none)
  outLen,       \* length of the `text` member of a fetch-article response
  text,         \* summarize: the text handed to the segmenter
  sentences,    \* summarize: splitSentences(text).slice(0, 60)
  vectorized,   \* summarize: buildSentenceVectors was called
  rankerCalled, \* summarize: textRank was called
  ranked,       \* summarize: the idx members of textRank's result, best first
  top,          \* summarize: the idx members of the selected entries, as emitted
  summary,      \* the `summary` member of a summarize response
  vectors,      \* textRank: the term-frequency objects of buildSentenceVectors
  sim,          \* textRank: the similarity matrix
  rowSum,       \* textRank: the sum of each row of sim
  scores,       \* textRank: the scores after `it` iterations
  it,           \* textRank: iterations completed
  dividedByZero, \* textRank: some term was divided by a row sum of zero
  bmRequests,   \* bookmarks: the create requests, each its token's user, title and url
  bmPc,         \* bookmarks: where each request's handler is
  bmStatus,     \* bookmarks: HTTP status answered to each request (0: none yet)
  bookmarks,    \* bookmarks: the documents of the Bookmark collection
  newsProvider, \* news: req.query.provider as sent ("auto" when absent)
  newsKeys,     \* news: the providers whose API key is in the environment
  newsPc,       \* news: where the handler is: start, loop, awaitFetch, done
  attempts,     \* news: the list `attempts`
  attemptIdx,   \* news: the place in `attempts` of the provider being tried
  contacted,    \* news: the providers fetch was called for, in order
  failedAttempts, \* news: the attempts that threw
  fetchedOk,    \* news: the providers whose fetch gave a list of articles
  newsStatus,   \* news: HTTP status of the response (0: none yet)
  newsNamed,    \* news: the `provider` member of the response
  newsArticles  \* news: the number of articles in the response

requestVars ==
  << endpoint, url, rawText, pc, timer, aborted, now, fetchIssued, upstream,
     nChunks, bodyBytes, textLen, thrown, status, error, outLen, text,
     sentences, vectorized, rankerCalled, ranked, top, summary >>

rankVars == << vectors, sim, rowSum, scores, it, dividedByZero >>

\* What the fetch and summarize handlers of the first sections never touch.
bookmarkVars == << bmRequests, bmPc, bmStatus, bookmarks >>

newsVars ==
  << newsProvider, newsKeys, newsPc, attempts, attemptIdx, contacted, failedAttempts,
     fetchedOk, newsStatus, newsNamed, newsArticles >>

restVars == << rankVars, bookmarkVars, newsVars >>

vars == << requestVars, restVars >>

----------------------------------------------------------------------------
(* Program constants *)

TIMEOUT_MS == 8000

ARTICLE_MAX_BYTES == 200 * 1024

SUMMARIZE_MAX_BYTES == 300 * 1024

MaxBytes(ep) == IF ep = "article" THEN ARTICLE_MAX_BYTES ELSE SUMMARIZE_MAX_BYTES

SENTENCE_CAP == 60

\* textRank(sentences, vectors, { damping: 0.85, iters: 30 }); the damping in hundredths.
DAMPING == 85

ITERS == 30

(* Bounds of the model *)

\* The clock advances in steps of TIMEOUT_MS \div TicksPerTimeout milliseconds.
TicksPerTimeout == 2

\* The clock stops this many steps after the deadline.
ExtraTicks == 1

\* Chunks the remote may deliver for one body.
MaxChunks == 3

\* Every text over TextAlphabet of at most this length is a request text.
MaxTextLen == 6

\* Generated texts have 1..MaxN sentences; every choice of the leading entries
\* of the ranking is explored for them.
MaxN == 16

\* A JavaScript number x is held as the integer floor(x * One): arithmetic in
\* steps of 1 / One, every product, quotient and root rounded down.
One == 10000

\* textRank is applied to every sequence of 2..MaxRankN sentences of SentencePool.
MaxRankN == 4

\* Create-bookmark requests in flight together.
MaxRequests == 3

----------------------------------------------------------------------------
(* Characters and strings *)

Min(a, b) == IF a <= b THEN a ELSE b

Max(a, b) == IF a >= b THEN a ELSE b

Digits == << "0", "1", "2", "3", "4", "5", "6", "7", "8", "9" >>

DigitChars == { Digits[i] : i \in 1..10 }

HexChars == DigitChars \cup { "a", "b", "c", "d", "e", "f" }

\* String.prototype.toLowerCase, on the letters the model's inputs use.
LowerChar(c) ==
  CASE c = "L" -> "l" [] c = "O" -> "o" [] c = "C" -> "c" [] c = "A" -> "a"
    [] c = "S" -> "s" [] c = "T" -> "t" [] c = "F" -> "f" [] c = "D" -> "d"
    [] c = "G" -> "g" [] c = "N" -> "n" [] c = "U" -> "u"
    [] OTHER -> c

ToLowerCase(s) == [ i \in 1..Len(s) |-> LowerChar(s[i]) ]

StartsWith(s, p) == Len(s) >= Len(p) /\ SubSeq(s, 1, Len(p)) = p

EndsWith(s, p) == Len(s) >= Len(p) /\ SubSeq(s, Len(s) - Len(p) + 1, Len(s)) = p

\* Number.prototype.toString: the decimal digits of n >= 0.
RECURSIVE ToDecimal(_)
ToDecimal(n) ==
  IF n < 10 THEN << Digits[n + 1] >>
  ELSE Append(ToDecimal(n \div 10), Digits[(n % 10) + 1])

DigitValue(c) == CHOOSE v \in 0..9 : Digits[v + 1] = c

\* parseInt(s, 10) on a sequence of decimal digits.
RECURSIVE ParseInt(_)
ParseInt(s) ==
  IF Len(s) = 0 THEN 0
  ELSE 10 * ParseInt(SubSeq(s, 1, Len(s) - 1)) + DigitValue(s[Len(s)])

\* String.prototype.split(sep) for a one-character separator.
RECURSIVE SplitOn(_, _)
SplitOn(s, sep) ==
  IF \A i \in 1..Len(s) : s[i] # sep THEN << s >>
  ELSE LET k == CHOOSE i \in 1..Len(s) :
                  s[i] = sep /\ \A j \in 1..(i - 1) : s[j] # sep
       IN  << SubSeq(s, 1, k - 1) >> \o SplitOn(SubSeq(s, k + 1, Len(s)), sep)

----------------------------------------------------------------------------
(* The URL of the request, and what `new URL(url)` makes of it *)

NoUrl == [ given |-> "absent" ]      \* the query has no url parameter

EmptyUrl == [ given |-> "empty" ]    \* the query has url= with nothing after it

NoText == [ given |-> FALSE, chars |-> << >> ]    \* the query has no text parameter

TextParam(chars) == [ given |-> TRUE, chars |-> chars ]    \* the query has text=chars

(* A URL as the caller writes it: malformed, or a scheme and a host.  A
   host is a name, a dotted IPv4 literal given by its four octets, or an
   IPv6 literal written between brackets. *)
NameHost(chars) == [ kind |-> "name", chars |-> chars ]

V4Host(a, b, c, d) == [ kind |-> "ipv4", octets |-> << a, b, c, d >> ]

V6Host(chars) == [ kind |-> "ipv6", chars |-> chars ]

Malformed == [ wellFormed |-> FALSE ]

Url(scheme, host) == [ wellFormed |-> TRUE, scheme |-> scheme, host |-> host ]

\* The WHATWG serializer writes an IPv6 address in its compressed form.
CompressV6(chars) ==
  IF chars = << "0", ":", "0", ":", "0", ":", "0", ":", "0", ":", "0", ":", "0", ":", "1" >>
  THEN << ":", ":", "1" >>
  ELSE chars

(* URL.hostname: a domain is lower-cased, an IPv4 address is written as four
   decimal octets, an IPv6 address is compressed, lower-cased and kept
   between its brackets. *)
Hostname(host) ==
  CASE host.kind = "name" -> ToLowerCase(host.chars)
    [] host.kind = "ipv4" ->
         ToDecimal(host.octets[1]) \o << "." >> \o ToDecimal(host.octets[2]) \o << "." >>
           \o ToDecimal(host.octets[3]) \o << "." >> \o ToDecimal(host.octets[4])
    [] host.kind = "ipv6" ->
         << "[" >> \o CompressV6(ToLowerCase(host.chars)) \o << "]" >>

\* URL.protocol
Protocol(u) == u.scheme \o ":"

(* net.isIP: 4 for four decimal octets 0..255 without leading zeros, 6 for
   an IPv6 address (hex groups and colons, nothing else), 0 otherwise. *)
IsV4Segment(p) ==
  /\ Len(p) \in 1..3
  /\ \A i \in 1..Len(p) : p[i] \in DigitChars
  /\ Len(p) > 1 => p[1] # "0"
  /\ ParseInt(p) <= 255

IsIPv4(s) ==
  LET parts == SplitOn(s, ".")
  IN  Len(parts) = 4 /\ \A i \in 1..4 : IsV4Segment(parts[i])

IsIPv6(s) ==
  LET groups == SplitOn(s, ":")
  IN  /\ Len(groups) \in 3..8
      /\ \A i \in 1..Len(groups) :
            /\ Len(groups[i]) <= 4
            /\ \A j \in 1..Len(groups[i]) : groups[i][j] \in HexChars
      /\ \/ Len(groups) = 8 /\ \A i \in 1..8 : Len(groups[i]) > 0
         \/ \E i \in 1..(Len(groups) - 1) : Len(groups[i]) = 0 \/ Len(groups[i + 1]) = 0

IsIP(s) == IF IsIPv4(s) THEN 4 ELSE IF IsIPv6(s) THEN 6 ELSE 0

\* isPrivateIp without the 169.254 test and with 172.31 left outside the range.
isPrivateIpLax(ip) ==
  LET v == IsIP(ip)
      parts == [ i \in 1..Len(SplitOn(ip, ".")) |-> ParseInt(SplitOn(ip, ".")[i]) ]
  IN  IF v = 4
      THEN \/ parts[1] = 10
           \/ parts[1] = 127
           \/ parts[1] = 192 /\ parts[2] = 168
           \/ parts[1] = 172 /\ parts[2] >= 16 /\ parts[2] < 31
      ELSE FALSE

isPrivateIp(ip) ==
  LET v == IsIP(ip)
      parts == [ i \in 1..Len(SplitOn(ip, ".")) |-> ParseInt(SplitOn(ip, ".")[i]) ]
  IN  IF v = 4
      THEN \/ parts[1] = 10
           \/ parts[1] = 127
           \/ parts[1] = 169 /\ parts[2] = 254
           \/ parts[1] = 192 /\ parts[2] = 168
           \/ parts[1] = 172 /\ parts[2] >= 16 /\ parts[2] <= 31
      ELSE IF v = 6
      THEN \/ ip = << ":", ":", "1" >>
           \/ ip = << "0", ":", "0", ":", "0", ":", "0", ":", "0", ":", "0", ":", "0", ":", "1" >>
           \/ StartsWith(ip, << "f", "c" >>)
           \/ StartsWith(ip, << "f", "d" >>)
      ELSE FALSE

LocalhostChars == << "l", "o", "c", "a", "l", "h", "o", "s", "t" >>

(* The checks both handlers run on the url before they fetch: the error of
   the 400 response, or "accept". *)
Guard(u) ==
  IF ~u.wellFormed THEN "Invalid url"
  ELSE IF Protocol(u) \notin { "http:", "https:" } THEN "Invalid protocol"
  ELSE LET hostname == ToLowerCase(Hostname(u.host))
       IN  IF hostname = LocalhostChars \/ EndsWith(hostname, << "." >> \o LocalhostChars)
           THEN "Disallowed host"
           ELSE IF IsIP(hostname) # 0 /\ isPrivateIp(hostname)
           THEN "Disallowed IP"
           ELSE "accept"

----------------------------------------------------------------------------
(* Segmentation and selection (summarize.js) *)

IsSpace(c) == c \in { " ", "\n" }

IsTerminal(c) == c \in { ".", "!", "?" }

\* String.prototype.trim
Trim(s) ==
  IF \A i \in 1..Len(s) : IsSpace(s[i]) THEN << >>
  ELSE LET first == CHOOSE i \in 1..Len(s) :
                      ~IsSpace(s[i]) /\ \A j \in 1..(i - 1) : IsSpace(s[j])
           last  == CHOOSE i \in 1..Len(s) :
                      ~IsSpace(s[i]) /\ \A j \in (i + 1)..Len(s) : IsSpace(s[j])
       IN  SubSeq(s, first, last)

\* String.prototype.slice(0, n)
Slice(s, n) == SubSeq(s, 1, Min(Len(s), n))

\* A place where /(?<=[.!?])\s+/ matches: white space right after a terminal mark.
IsBoundary(s, i) == i > 1 /\ IsSpace(s[i]) /\ IsTerminal(s[i - 1])

\* String.prototype.split(/(?<=[.!?])\s+/): the match takes the whole run of white space.
RECURSIVE SplitAfterTerminal(_)
SplitAfterTerminal(s) ==
  IF \A i \in 1..Len(s) : ~IsBoundary(s, i) THEN << s >>
  ELSE LET k == CHOOSE i \in 1..Len(s) :
                  IsBoundary(s, i) /\ \A j \in 1..(i - 1) : ~IsBoundary(s, j)
           rest == { j \in (k + 1)..Len(s) : ~IsSpace(s[j]) }
           next == IF rest = {} THEN Len(s) + 1
                   ELSE CHOOSE j \in rest : \A m \in rest : j <= m
       IN  << SubSeq(s, 1, k - 1) >> \o SplitAfterTerminal(SubSeq(s, next, Len(s)))

splitSentences(t) ==
  LET spaced  == [ i \in 1..Len(t) |-> IF t[i] = "\n" THEN " " ELSE t[i] ]
      pieces  == SplitAfterTerminal(spaced)
      trimmed == [ i \in 1..Len(pieces) |-> Trim(pieces[i]) ]
  IN  SelectSeq(trimmed, LAMBDA piece : Len(piece) > 0)

\* Array.prototype.join(' ')
RECURSIVE JoinSpace(_)
JoinSpace(ss) ==
  IF Len(ss) = 0 THEN << >>
  ELSE IF Len(ss) = 1 THEN ss[1]
  ELSE ss[1] \o << " " >> \o JoinSpace(Tail(ss))

\* Math.min(3, Math.max(1, Math.floor(n * 0.2)))
\* topCount with the product rounded up.
topCountNoFloor(n) == Min(3, Max(1, (n * 2 + 9) \div 10))

topCount(n) == Min(3, Max(1, (n * 2) \div 10))

\* Array.prototype.sort((a, b) => a.idx - b.idx), by insertion.
RECURSIVE SortByIdx(_)
SortByIdx(r) ==
  IF Len(r) <= 1 THEN r
  ELSE LET sorted == SortByIdx(SubSeq(r, 1, Len(r) - 1))
           x      == r[Len(r)]
           before == SelectSeq(sorted, LAMBDA y : y <= x)
           after  == SelectSeq(sorted, LAMBDA y : y > x)
       IN  before \o << x >> \o after

\* SelectTop without the sort by idx.
SelectTopUnsorted(r, n) == SubSeq(r, 1, Min(topCount(n), Len(r)))

\* ranked.slice(0, topCount).sort((a, b) => a.idx - b.idx), as the idx members.
SelectTop(r, n) == SortByIdx(SubSeq(r, 1, Min(topCount(n), Len(r))))

(* What textRank returns for n >= 2 sentences is the n entries {idx, score},
   each idx of 0..n-1 once, ordered by score: here any such order, as the
   sequence of its idx members.  The handler reads at most the first three
   entries (topCount <= 3), so the orders are told apart by their first three
   entries only, the others following in ascending idx.  For n > MaxN the
   first three entries are drawn from the first two and the last two idx. *)
RankedHeads(n) ==
  LET pool == IF n <= MaxN THEN 0..(n - 1) ELSE { 0, 1, n - 2, n - 1 }
  IN  { h \in [ 1..Min(3, n) -> pool ] : \A i, j \in 1..Min(3, n) : i # j => h[i] # h[j] }

Rankings(n) ==
  { h \o SelectSeq([ i \in 1..n |-> i - 1 ], LAMBDA x : \A k \in 1..Len(h) : h[k] # x)
      : h \in RankedHeads(n) }

----------------------------------------------------------------------------
(* Numbers (summarize.js: the arithmetic of cosineSim and textRank) *)

\* a * b and a / b on numbers held in steps of 1 / One.
Mul(a, b) == (a * b) \div One

\* a / b; x / 0 is Infinity or NaN in JavaScript, held as 0 here and recorded
\* by the caller in dividedByZero.
Div(a, b) == IF b = 0 THEN 0 ELSE (a * One) \div b

\* The largest r in lo..hi with r * r <= x.
RECURSIVE RootBetween(_, _, _)
RootBetween(lo, hi, x) ==
  IF lo >= hi THEN lo
  ELSE LET mid == (lo + hi + 1) \div 2
       IN  IF mid * mid <= x THEN RootBetween(mid, hi, x) ELSE RootBetween(lo, mid - 1, x)

\* Math.sqrt of the integer x.
Sqrt(x) == RootBetween(0, 46340, x * One * One)

\* The sum of the values of a function (Array.prototype.reduce((a, b) => a + b, 0)).
RECURSIVE SumFn(_)
SumFn(f) ==
  IF DOMAIN f = {} THEN 0
  ELSE LET k == CHOOSE x \in DOMAIN f : TRUE
       IN  f[k] + SumFn([ x \in DOMAIN f \ { k } |-> f[x] ])

----------------------------------------------------------------------------
(* Tokenizer and vectorizer (summarize.js) *)

LowerLetters ==
  { "a", "b", "c", "d", "e", "f", "g", "h", "i", "j", "k", "l", "m",
    "n", "o", "p", "q", "r", "s", "t", "u", "v", "w", "x", "y", "z" }

\* String.prototype.split(/\s+/)
RECURSIVE SplitOnSpaces(_)
SplitOnSpaces(s) ==
  IF \A i \in 1..Len(s) : ~IsSpace(s[i]) THEN << s >>
  ELSE LET k == CHOOSE i \in 1..Len(s) :
                  IsSpace(s[i]) /\ \A j \in 1..(i - 1) : ~IsSpace(s[j])
           rest == { j \in (k + 1)..Len(s) : ~IsSpace(s[j]) }
           next == IF rest = {} THEN Len(s) + 1
                   ELSE CHOOSE j \in rest : \A m \in rest : j <= m
       IN  << SubSeq(s, 1, k - 1) >> \o SplitOnSpaces(SubSeq(s, next, Len(s)))

\* s.toLowerCase().replace(/[^a-z0-9\s]/g, ' ').split(/\s+/).filter((w) => w.length > 2)
tokenize(s) ==
  LET lower == ToLowerCase(s)
      clean == [ i \in 1..Len(lower) |->
                   IF lower[i] \in LowerLetters \cup DigitChars \/ IsSpace(lower[i])
                   THEN lower[i] ELSE " " ]
  IN  SelectSeq(SplitOnSpaces(clean), LAMBDA w : Len(w) > 2)

\* The vocab Map after the tokens toks: a token's id is its position less one.
RECURSIVE AddToVocab(_, _)
AddToVocab(vocab, toks) ==
  IF Len(toks) = 0 THEN vocab
  ELSE AddToVocab(IF \E k \in 1..Len(vocab) : vocab[k] = Head(toks)
                  THEN vocab ELSE Append(vocab, Head(toks)),
                  Tail(toks))

\* vocab.get(t)
VocabId(vocab, t) == (CHOOSE k \in 1..Len(vocab) : vocab[k] = t) - 1

\* The freq object of one sentence: the ids of its tokens, each with its count.
Freq(vocab, toks) ==
  LET ids == { VocabId(vocab, toks[k]) : k \in 1..Len(toks) }
  IN  [ id \in ids |-> Cardinality({ k \in 1..Len(toks) : VocabId(vocab, toks[k]) = id }) ]

\* The loop of buildSentenceVectors over the sentences ss, the vocab carried along.
RECURSIVE VectorsFrom(_, _)
VectorsFrom(vocab, ss) ==
  IF Len(ss) = 0 THEN << >>
  ELSE LET toks == tokenize(Head(ss))
           v    == AddToVocab(vocab, toks)
       IN  << Freq(v, toks) >> \o VectorsFrom(v, Tail(ss))

\* The `vectors` member of buildSentenceVectors(sentences).
buildSentenceVectors(ss) == VectorsFrom(<< >>, ss)

----------------------------------------------------------------------------
(* TextRank (summarize.js) *)

cosineSim(a, b) ==
  LET both == DOMAIN a \cap DOMAIN b
      dot  == SumFn([ k \in both |-> a[k] * b[k] ])
      na   == SumFn([ k \in DOMAIN a |-> a[k] * a[k] ])
      nb   == SumFn([ k \in DOMAIN b |-> b[k] * b[k] ])
  IN  IF na = 0 \/ nb = 0 THEN 0
      ELSE Div(dot * One, Mul(Sqrt(na), Sqrt(nb)))

\* sim after the double loop: cosineSim for i < j, mirrored, zero on the diagonal.
SimMatrix(vs) ==
  [ i \in 1..Len(vs) |-> [ j \in 1..Len(vs) |->
      IF i = j THEN 0
      ELSE IF i < j THEN cosineSim(vs[i], vs[j]) ELSE cosineSim(vs[j], vs[i]) ] ]

\* sim.map((row) => row.reduce((a, b) => a + b, 0))
RowSums(S) == [ i \in 1..Len(S) |-> SumFn(S[i]) ]

\* new Array(n).fill(1 / n)
InitialScores(n) == [ i \in 1..n |-> Div(One, n * One) ]

\* d
Damping == (DAMPING * One) \div 100

\* (1 - d) / n
BaseScore(n) == Div(One - Damping, n * One)

\* d * (sim[j][i] / rowSum[j]) * scores[j]
Term(S, rs, sc, j, i) == Mul(Mul(Damping, Div(S[j][i], rs[j])), sc[j])

\* The loop over j for one i, from j on: next[i] is acc so far.
RECURSIVE AddTerms(_, _, _, _, _, _)
AddTerms(S, rs, sc, i, j, acc) ==
  IF j > Len(S) THEN acc
  ELSE IF S[j][i] <= 0 THEN AddTerms(S, rs, sc, i, j + 1, acc)
  ELSE AddTerms(S, rs, sc, i, j + 1, acc + Term(S, rs, sc, j, i))

\* The loop over i with scores overwritten as it goes: entry i reads the new
\* scores of the entries before it.
RECURSIVE InPlaceFrom(_, _, _, _)
InPlaceFrom(S, rs, sc, i) ==
  IF i > Len(S) THEN sc
  ELSE InPlaceFrom(S, rs,
         [ sc EXCEPT ![i] = IF rs[i] = 0 THEN BaseScore(Len(S))
                            ELSE AddTerms(S, rs, sc, i, 1, BaseScore(Len(S))) ],
         i + 1)

\* NextScores without the `next` array.
NextScoresInPlace(S, rs, sc) == InPlaceFrom(S, rs, sc, 1)

\* One iteration: the array `next`, which then replaces scores.
NextScores(S, rs, sc) ==
  [ i \in 1..Len(S) |->
      IF rs[i] = 0 THEN BaseScore(Len(S))
      ELSE AddTerms(S, rs, sc, i, 1, BaseScore(Len(S))) ]

\* The divisions one iteration performs: rowSum[j] for every i, j it does not skip.
Divisors(S, rs) ==
  { rs[j] : j \in { j \in 1..Len(S) : \E i \in 1..Len(S) : rs[i] # 0 /\ S[j][i] > 0 } }

\* SortByScore with the comparison turned round (a.score - b.score).
RECURSIVE SortByScoreAscending(_, _)
SortByScoreAscending(sc, n) ==
  IF n = 0 THEN << >>
  ELSE LET sorted == SortByScoreAscending(sc, n - 1)
           before == SelectSeq(sorted, LAMBDA y : sc[y + 1] <= sc[n])
           after  == SelectSeq(sorted, LAMBDA y : sc[y + 1] > sc[n])
       IN  before \o << n - 1 >> \o after

\* scores.map((s, idx) => ({ idx, score: s })).sort((a, b) => b.score - a.score),
\* as the idx members: by insertion, entries of equal score keeping their order.
RECURSIVE SortByScore(_, _)
SortByScore(sc, n) ==
  IF n = 0 THEN << >>
  ELSE LET sorted == SortByScore(sc, n - 1)
           before == SelectSeq(sorted, LAMBDA y : sc[y + 1] >= sc[n])
           after  == SelectSeq(sorted, LAMBDA y : sc[y + 1] < sc[n])
       IN  before \o << n - 1 >> \o after

----------------------------------------------------------------------------
(* The handlers *)

\* res.status(st).json({ error: err }), and the handler returns.
Respond(st, err) == status' = st /\ error' = err /\ pc' = "done"

\* The catch of both handlers: 504 for an AbortError, 500 for anything else.
Catch(name) ==
  /\ thrown' = name
  /\ IF name = "AbortError"
     THEN Respond(504, "Timeout fetching remote")
     ELSE Respond(500, "Server error")

NoRanking ==
  /\ vectorized' = FALSE /\ rankerCalled' = FALSE
  /\ ranked' = << >> /\ top' = << >>

\* UsesFastPath with < in place of <=.
UsesFastPathBelowThree(n) == n < 3

\* sentences.length <= 3
UsesFastPath(n) == n <= 3

(* summarize.js from `if (!text || ...)` to the response: the empty-text and
   no-sentence answers, the fast path, and vectorize / rank / select. *)
SummarizeText(t) ==
  /\ text' = t
  /\ outLen' = outLen
  /\ IF Len(t) = 0 \/ Len(Trim(t)) = 0
     THEN /\ Respond(422, "No text to summarize")
          /\ sentences' = << >> /\ summary' = << >> /\ NoRanking
     ELSE /\ sentences' = Slice(splitSentences(t), SENTENCE_CAP)
          /\ IF Len(sentences') = 0
             THEN Respond(422, "No sentences") /\ summary' = << >> /\ NoRanking
             ELSE IF UsesFastPath(Len(sentences'))
             THEN /\ Respond(200, "")
                  /\ summary' = JoinSpace(sentences')
                  /\ NoRanking
             ELSE \E r \in Rankings(Len(sentences')) :
                  /\ vectorized' = TRUE /\ rankerCalled' = TRUE
                  /\ ranked' = r
                  /\ top' = SelectTop(r, Len(sentences'))
                  /\ summary' = JoinSpace([ i \in 1..Len(top') |-> sentences'[top'[i] + 1] ])
                  /\ Respond(200, "")

\* GuardThenFetch with the GET issued before the checks.
FetchThenGuard(u) ==
  /\ fetchIssued' = TRUE
  /\ IF Guard(u) # "accept"
     THEN Respond(400, Guard(u)) /\ timer' = timer
     ELSE pc' = "awaitHeaders" /\ timer' = "armed" /\ UNCHANGED << status, error >>

(* Both handlers, from `new URL(url)` to the call of fetch: a rejected url is
   answered 400; for an accepted one the deadline timer is set and the GET is
   issued. *)
GuardThenFetch(u) ==
  IF Guard(u) # "accept"
  THEN Respond(400, Guard(u)) /\ UNCHANGED << timer, fetchIssued >>
  ELSE /\ pc' = "awaitHeaders"
       /\ timer' = "armed"
       /\ fetchIssued' = TRUE
       /\ UNCHANGED << status, error >>

\* fetch-article: the handler up to its first await.
ArticleStart ==
  /\ pc = "start" /\ endpoint = "article"
  /\ IF url \in { NoUrl, EmptyUrl }
     THEN Respond(400, "Missing url") /\ UNCHANGED << timer, fetchIssued >>
     ELSE GuardThenFetch(url)
  /\ UNCHANGED << endpoint, url, rawText, aborted, now, upstream, nChunks, bodyBytes,
                  textLen, thrown, outLen, text, sentences, vectorized, rankerCalled,
                  ranked, top, summary >>
  /\ UNCHANGED restVars

\* summarize: the handler up to its first await, or to its response.
SummarizeStart ==
  /\ pc = "start" /\ endpoint = "summarize"
  /\ IF url \notin { NoUrl, EmptyUrl }
     THEN /\ GuardThenFetch(url)
          /\ UNCHANGED << outLen, text, sentences, vectorized, rankerCalled, ranked,
                          top, summary >>
     ELSE IF rawText.given /\ Len(rawText.chars) > 0
     THEN SummarizeText(Slice(rawText.chars, SUMMARIZE_MAX_BYTES))
            /\ UNCHANGED << timer, fetchIssued >>
     ELSE /\ Respond(400, "Missing url or text")
          /\ UNCHANGED << timer, fetchIssued, outLen, text, sentences, vectorized,
                          rankerCalled, ranked, top, summary >>
  /\ UNCHANGED << endpoint, url, rawText, aborted, now, upstream, nChunks, bodyBytes,
                  textLen, thrown >>
  /\ UNCHANGED restVars

----------------------------------------------------------------------------
(* The requests the model explores *)

TextAlphabet == { "a", "b", ".", " ", "\n" }

AllTexts(n) == UNION { [ 1..k -> TextAlphabet ] : k \in 0..n }

\* "s0.", "s1.", ...: sentences that differ, so that their order shows.
GenSentence(i) == << "s" >> \o ToDecimal(i) \o << "." >>

GenText(n) == JoinSpace([ i \in 1..n |-> GenSentence(i - 1) ])

PickedTexts ==
  { << "a", "!", " ", "b", "?", " ", "a", "." >>,
    << " ", "a", ".", "\n", "\n", "b", "b", " ", "a", "!", " ", " ", "b", ".", " " >>,
    << "a", ".", " ", "b", ".", " ", "a", ".", " ", "b", "b", " ", "a" >> }

SummarizeTexts ==
  AllTexts(MaxTextLen) \cup PickedTexts
    \cup { GenText(n) : n \in 1..MaxN }
    \cup { GenText(SENTENCE_CAP), GenText(SENTENCE_CAP + 1) }

(* The tag stripping, white-space collapse and trim never lengthen the text
   (every match is replaced by a single space): the length that is left. *)
StrippedLens(n) == { 0, n \div 2, n }

(* The text left by the stripping: collapsed and trimmed, so without line
   breaks, doubled spaces or spaces at its ends. *)
IsCollapsed(t) ==
  /\ \A i \in 1..Len(t) : t[i] # "\n"
  /\ \A i \in 1..(Len(t) - 1) : ~(t[i] = " " /\ t[i + 1] = " ")
  /\ Len(t) > 0 => t[1] # " " /\ t[Len(t)] # " "

\* What the stripping may leave of a fetched page.
FetchedTexts == { t \in { << >>, GenText(1), GenText(4) } : IsCollapsed(t) }

RawTextSamples == { << >>, << " " >>, << "\n", " " >>, GenText(1), GenText(3), GenText(5) }

Schemes == { "http", "https" }

NameSamples ==
  { LocalhostChars,
    << "L", "o", "c", "a", "l", "h", "o", "s", "t" >>,
    << "a", "." >> \o LocalhostChars,
    LocalhostChars \o << ".", "c", "o" >>,
    << "a", ".", "c", "o" >> }

V6Samples ==
  { << ":", ":", "1" >>,
    << "0", ":", "0", ":", "0", ":", "0", ":", "0", ":", "0", ":", "0", ":", "1" >>,
    << "f", "c", "0", "0", ":", ":", "1" >>,
    << "F", "D", "1", "2", ":", ":", "a" >>,
    << "2", "0", "0", "1", ":", "d", "b", "8", ":", ":", "1" >> }

V4Samples ==
  { V4Host(127, 0, 0, 1), V4Host(10, 1, 2, 3), V4Host(169, 254, 169, 254),
    V4Host(192, 168, 0, 1), V4Host(172, 16, 0, 1), V4Host(172, 31, 255, 255),
    V4Host(172, 32, 0, 1), V4Host(8, 8, 8, 8) }

UrlSamples ==
  { Malformed, Url("ftp", NameHost(<< "a", ".", "c", "o" >>)) }
    \cup { Url("http", NameHost(n)) : n \in NameSamples }
    \cup { Url("https", h) : h \in V4Samples }
    \cup { Url("http", V6Host(a)) : a \in V6Samples }

\* Every IPv4 literal a.b.0.1, and the samples.
GuardUrls ==
  UrlSamples \cup { Url(sc, V4Host(a, b, 0, 1)) : sc \in { "http" }, a \in 0..255, b \in 0..255 }

----------------------------------------------------------------------------
(* The remote server, the body and the deadline *)

(* A chunk as reader.read() delivers it: its bytes, and the length of
   Buffer.from(value).toString('utf8'), which is the number of UTF-16 units:
   one per ASCII byte, one per three-byte sequence. *)
ChunkChars == { 0, 1, 100 * 1024, 200 * 1024, 300 * 1024 }

Chunks ==
  { [ bytes |-> n, chars |-> n ] : n \in ChunkChars }
    \cup { [ bytes |-> 3 * n, chars |-> n ] : n \in { 100 * 1024 } }

\* OverCeiling against twice the ceiling.
OverCeilingTwice(len, ep) == len > 2 * MaxBytes(ep)

\* text.length > MAX_BYTES
OverCeiling(len, ep) == len > MaxBytes(ep)

\* The handler's answer to a body over the ceiling, after controller.abort().
TooLarge ==
  IF endpoint = "article"
  THEN Respond(413, "Fetched content too large") /\ thrown' = thrown
  ELSE Catch("Error")

TickMs == TIMEOUT_MS \div TicksPerTimeout

\* Time passes, but not past the deadline while its timer is pending.
Tick ==
  /\ pc # "start"
  /\ pc # "done" \/ timer = "armed"
  /\ ~(timer = "armed" /\ now >= TIMEOUT_MS)
  /\ now < TIMEOUT_MS + ExtraTicks * TickMs
  /\ now' = IF timer = "armed" THEN Min(now + TickMs, TIMEOUT_MS) ELSE now + TickMs
  /\ UNCHANGED << endpoint, url, rawText, pc, timer, aborted, fetchIssued, upstream,
                  nChunks, bodyBytes, textLen, thrown, status, error, outLen, text,
                  sentences, vectorized, rankerCalled, ranked, top, summary >>
  /\ UNCHANGED restVars

(* The callback of setTimeout: controller.abort().  A fetch still waiting
   for its response rejects with an AbortError, which the handler catches. *)
TimerFires ==
  /\ timer = "armed" /\ now >= TIMEOUT_MS
  /\ timer' = "fired"
  /\ aborted' = TRUE
  /\ IF pc = "awaitHeaders"
     THEN Catch("AbortError")
     ELSE UNCHANGED << pc, status, error, thrown >>
  /\ UNCHANGED << endpoint, url, rawText, now, fetchIssued, upstream, nChunks,
                  bodyBytes, textLen, outLen, text, sentences, vectorized,
                  rankerCalled, ranked, top, summary >>
  /\ UNCHANGED restVars

(* The fetch resolves with the response's status line and headers: the
   handler clears the timer, answers a non-2xx status, and otherwise starts
   to read the body (with a reader if the body has one). *)
HeadersArrive ==
  /\ pc = "awaitHeaders"
  /\ timer' = "cleared"
  /\ \E ok \in BOOLEAN :
       IF ~ok
       THEN /\ upstream' = "non2xx"
            /\ IF endpoint = "article"
               THEN Respond(502, "Failed to fetch remote") /\ thrown' = thrown
               ELSE Catch("Error")
       ELSE /\ upstream' = "ok"
            /\ \E hasReader \in BOOLEAN :
                 pc' = IF hasReader THEN "readBody" ELSE "awaitText"
            /\ UNCHANGED << status, error, thrown >>
  /\ UNCHANGED << endpoint, url, rawText, aborted, now, fetchIssued, nChunks, bodyBytes,
                  textLen, outLen, text, sentences, vectorized, rankerCalled, ranked,
                  top, summary >>
  /\ UNCHANGED restVars

\* The fetch, or a read of the body, rejects with a transport error (a TypeError).
TransportError ==
  /\ pc \in { "awaitHeaders", "readBody", "awaitText" }
  /\ upstream' = "neterror"
  /\ Catch("TypeError")
  /\ UNCHANGED << endpoint, url, rawText, timer, aborted, now, fetchIssued, nChunks,
                  bodyBytes, textLen, outLen, text, sentences, vectorized, rankerCalled,
                  ranked, top, summary >>
  /\ UNCHANGED restVars

\* reader.read() delivers a chunk: it is decoded and appended, then the length is checked.
ChunkArrives ==
  /\ pc = "readBody" /\ nChunks < MaxChunks
  /\ \E c \in Chunks :
       /\ nChunks' = nChunks + 1
       /\ bodyBytes' = bodyBytes + c.bytes
       /\ textLen' = textLen + c.chars
       /\ IF OverCeiling(textLen + c.chars, endpoint)
          THEN aborted' = TRUE /\ TooLarge
          ELSE UNCHANGED << aborted, pc, status, error, thrown >>
  /\ UNCHANGED << endpoint, url, rawText, timer, now, fetchIssued, upstream, outLen,
                  text, sentences, vectorized, rankerCalled, ranked, top, summary >>
  /\ UNCHANGED restVars

(* The text is complete: it is stripped; fetch-article answers it, summarize
   goes on to summarize it. *)
Finish(len) ==
  IF endpoint = "article"
  THEN /\ \E n \in StrippedLens(len) : outLen' = n
       /\ Respond(200, "")
       /\ UNCHANGED << text, sentences, vectorized, rankerCalled, ranked, top, summary >>
  ELSE \E t \in FetchedTexts : Len(t) <= len /\ SummarizeText(t)

\* reader.read() reports the end of the body.
BodyEnds ==
  /\ pc = "readBody"
  /\ Finish(textLen)
  /\ UNCHANGED << endpoint, url, rawText, timer, aborted, now, fetchIssued, upstream,
                  nChunks, bodyBytes, textLen, thrown >>
  /\ UNCHANGED restVars

(* A body without getReader: res.text() resolves with the whole body, which
   is cut to the ceiling. *)
TextArrives ==
  /\ pc = "awaitText"
  /\ \E c \in Chunks :
       /\ bodyBytes' = c.bytes
       /\ textLen' = Min(c.chars, MaxBytes(endpoint))
       /\ Finish(Min(c.chars, MaxBytes(endpoint)))
  /\ UNCHANGED << endpoint, url, rawText, timer, aborted, now, fetchIssued, upstream,
                  nChunks, thrown >>
  /\ UNCHANGED restVars

----------------------------------------------------------------------------
(* Specifications *)

\* textRank has not been called.
RankIdle ==
  /\ vectors = << >> /\ sim = << >> /\ rowSum = << >> /\ scores = << >>
  /\ it = 0 /\ dividedByZero = FALSE

\* No bookmark request has arrived and the collection is empty.
BookmarksIdle ==
  /\ bmRequests = << >> /\ bmPc = << >> /\ bmStatus = << >> /\ bookmarks = {}

\* No news request has arrived.
NewsIdle ==
  /\ newsProvider = << >> /\ newsKeys = {} /\ newsPc = "start" /\ attempts = << >>
  /\ attemptIdx = 0 /\ contacted = << >> /\ failedAttempts = {} /\ fetchedOk = {}
  /\ newsStatus = 0 /\ newsNamed = << >> /\ newsArticles = 0

RestIdle == RankIdle /\ BookmarksIdle /\ NewsIdle

\* A request has arrived and its handler has not started.
FreshHandler ==
  /\ pc = "start" /\ timer = "unset" /\ aborted = FALSE /\ now = 0
  /\ fetchIssued = FALSE /\ upstream = "none" /\ nChunks = 0 /\ bodyBytes = 0
  /\ textLen = 0 /\ thrown = "none" /\ status = 0 /\ error = "" /\ outLen = 0
  /\ text = << >> /\ sentences = << >> /\ vectorized = FALSE /\ rankerCalled = FALSE
  /\ ranked = << >> /\ top = << >> /\ summary = << >>

Fresh == FreshHandler /\ RestIdle

\* Requests to both routes, over the sample urls and texts.
Init ==
  /\ endpoint \in { "article", "summarize" }
  /\ url \in { NoUrl, EmptyUrl } \cup UrlSamples
  /\ rawText \in { NoText } \cup { TextParam(t) : t \in RawTextSamples }
  /\ endpoint = "article" => rawText = NoText
  /\ url \notin { NoUrl, EmptyUrl } =>
       \/ rawText = NoText
       \/ rawText = TextParam(GenText(1)) /\ url = Url("http", NameHost(<< "a", ".", "c", "o" >>))
  /\ Fresh

Next ==
  \/ ArticleStart
  \/ SummarizeStart
  \/ Tick
  \/ TimerFires
  \/ HeadersArrive
  \/ TransportError
  \/ ChunkArrives
  \/ BodyEnds
  \/ TextArrives

Spec == Init /\ [][Next]_vars

\* The URL checks of both routes, over every IPv4 literal a.b.0.1.
InitGuard ==
  /\ endpoint \in { "article", "summarize" }
  /\ url \in GuardUrls
  /\ rawText = NoText
  /\ Fresh

NextGuard == ArticleStart \/ SummarizeStart

SpecGuard == InitGuard /\ [][NextGuard]_vars

\* summarize on a text given in the request.
InitSummarize ==
  /\ endpoint = "summarize"
  /\ url \in { NoUrl, EmptyUrl }
  /\ rawText \in { NoText } \cup { TextParam(t) : t \in SummarizeTexts }
  /\ url = EmptyUrl => rawText \in { NoText, TextParam(<< >>), TextParam(GenText(1)) }
  /\ Fresh

NextSummarize == SummarizeStart

SpecSummarize == InitSummarize /\ [][NextSummarize]_vars

----------------------------------------------------------------------------
(* summarize on a text of four sentences or more, step by step: vectorize,
   textRank (its set-up, each of its iterations, its sort) and the selection.
   The steps run without a break in the program; they are separate here so
   that the scores are visible after every iteration. *)

SentencePool ==
  { << "C", "a", "t", " ", "d", "o", "g", "." >>,
    << "D", "o", "g", ",", " ", "d", "o", "g", " ", "s", "k", "y", "!" >>,
    << "S", "k", "y", "." >>,
    << "A", " ", "t", "o", "." >>,
    << "C", "a", "t", "." >> }

\* The five-sentence text about cats, dogs and the sky.
CatsText ==
  << "C", "a", "t", "s", " ", "a", "r", "e", " ", "m", "a", "m",
     "m", "a", "l", "s", ".", " ", "C", "a", "t", "s", " ", "s",
     "l", "e", "e", "p", " ", "a", " ", "l", "o", "t", ".", " ",
     "D", "o", "g", "s", " ", "a", "r", "e", " ", "m", "a", "m",
     "m", "a", "l", "s", " ", "t", "o", "o", ".", " ", "D", "o",
     "g", "s", " ", "b", "a", "r", "k", " ", "l", "o", "u", "d",
     "l", "y", ".", " ", "T", "h", "e", " ", "s", "k", "y", " ",
     "i", "s", " ", "b", "l", "u", "e", "." >>

\* The sentence sequences textRank is applied to.
RankInputs ==
  { splitSentences(CatsText) } \cup
  UNION { [ 1..n -> SentencePool ] : n \in 2..MaxRankN }

\* const { vectors } = buildSentenceVectors(sentences)
Vectorize ==
  /\ pc = "vectorize"
  /\ vectors' = buildSentenceVectors(sentences)
  /\ vectorized' = TRUE
  /\ pc' = "textRank"
  /\ UNCHANGED << endpoint, url, rawText, timer, aborted, now, fetchIssued, upstream,
                  nChunks, bodyBytes, textLen, thrown, status, error, outLen, text,
                  sentences, rankerCalled, ranked, top, summary >>
  /\ UNCHANGED << sim, rowSum, scores, it, dividedByZero >>
  /\ UNCHANGED << bookmarkVars, newsVars >>

\* textRank up to its loop of iterations (n = 0 and n = 1 return before it;
\* the handler passes four sentences or more).
TextRankStart ==
  /\ pc = "textRank" /\ Len(vectors) >= 2
  /\ rankerCalled' = TRUE
  /\ sim' = SimMatrix(vectors)
  /\ rowSum' = RowSums(sim')
  /\ scores' = InitialScores(Len(vectors))
  /\ it' = 0
  /\ pc' = "iterate"
  /\ UNCHANGED << endpoint, url, rawText, timer, aborted, now, fetchIssued, upstream,
                  nChunks, bodyBytes, textLen, thrown, status, error, outLen, text,
                  sentences, vectorized, ranked, top, summary >>
  /\ UNCHANGED << vectors, dividedByZero >>
  /\ UNCHANGED << bookmarkVars, newsVars >>

\* One pass of `for (let it = 0; it < iters; it++)`.
TextRankIterate ==
  /\ pc = "iterate" /\ it < ITERS
  /\ scores' = NextScores(sim, rowSum, scores)
  /\ dividedByZero' = (dividedByZero \/ 0 \in Divisors(sim, rowSum))
  /\ it' = it + 1
  /\ UNCHANGED requestVars
  /\ UNCHANGED << vectors, sim, rowSum >>
  /\ UNCHANGED << bookmarkVars, newsVars >>

\* The loop is over: textRank sorts and returns.
TextRankSort ==
  /\ pc = "iterate" /\ it = ITERS
  /\ ranked' = SortByScore(scores, Len(scores))
  /\ pc' = "ranked"
  /\ UNCHANGED << endpoint, url, rawText, timer, aborted, now, fetchIssued, upstream,
                  nChunks, bodyBytes, textLen, thrown, status, error, outLen, text,
                  sentences, vectorized, rankerCalled, top, summary >>
  /\ UNCHANGED rankVars
  /\ UNCHANGED << bookmarkVars, newsVars >>

\* topCount, slice, sort by idx, join, and the response.
SummarizeSelect ==
  /\ pc = "ranked" /\ ~UsesFastPath(Len(sentences))
  /\ top' = SelectTop(ranked, Len(sentences))
  /\ summary' = JoinSpace([ i \in 1..Len(top') |-> sentences[top'[i] + 1] ])
  /\ Respond(200, "")
  /\ UNCHANGED << endpoint, url, rawText, timer, aborted, now, fetchIssued, upstream,
                  nChunks, bodyBytes, textLen, thrown, outLen, text, sentences,
                  vectorized, rankerCalled, ranked >>
  /\ UNCHANGED rankVars
  /\ UNCHANGED << bookmarkVars, newsVars >>

\* The handler has split the text into the sentences of one of RankInputs.
InitRank ==
  /\ endpoint = "summarize" /\ url = NoUrl
  /\ sentences \in RankInputs
  /\ text = JoinSpace(sentences)
  /\ rawText = TextParam(text)
  /\ pc = "vectorize" /\ timer = "unset" /\ aborted = FALSE /\ now = 0
  /\ fetchIssued = FALSE /\ upstream = "none" /\ nChunks = 0 /\ bodyBytes = 0
  /\ textLen = 0 /\ thrown = "none" /\ status = 0 /\ error = "" /\ outLen = 0
  /\ vectorized = FALSE /\ rankerCalled = FALSE
  /\ ranked = << >> /\ top = << >> /\ summary = << >>
  /\ RestIdle

NextRank ==
  \/ Vectorize
  \/ TextRankStart
  \/ TextRankIterate
  \/ TextRankSort
  \/ SummarizeSelect

SpecRank == InitRank /\ [][NextRank]_vars

----------------------------------------------------------------------------
(* Bookmarks (routes/bookmarks, models/Bookmark.js): POST / by several clients
   at once.  Each handler runs up to its next `await`; the database answers a
   pending findOne or create at any later moment. *)

NoUser == "none"

Users == { "u1", "u2" }

\* The requests explored: [user |-> the user of the token (NoUser: no valid
\* token), title |-> a title is given, url |-> the url ("" if none)].
BookmarkRequests ==
  { [ user |-> "u1",   title |-> TRUE,  url |-> "a" ],
    [ user |-> "u1",   title |-> TRUE,  url |-> "b" ],
    [ user |-> "u2",   title |-> TRUE,  url |-> "a" ],
    [ user |-> NoUser, title |-> TRUE,  url |-> "a" ],
    [ user |-> "u1",   title |-> FALSE, url |-> "a" ],
    [ user |-> "u2",   title |-> TRUE,  url |-> ""  ] }

\* Bookmark.findOne({ userId, url })
FindOne(userId, u) == { b \in bookmarks : b.userId = userId /\ b.url = u }

\* Bookmark.create: the collection has no unique index, every insert is accepted.
\* The document's _id is the number of the request that made it.
Insert(r) ==
  bookmarks \cup { [ id |-> r, userId |-> bmRequests[r].user, url |-> bmRequests[r].url ] }

\* authMiddleware and the handler up to `await Bookmark.findOne`.
CreateStart(r) ==
  /\ bmPc[r] = "start"
  /\ IF bmRequests[r].user = NoUser
     THEN bmStatus' = [ bmStatus EXCEPT ![r] = 401 ] /\ bmPc' = [ bmPc EXCEPT ![r] = "done" ]
     ELSE IF ~bmRequests[r].title \/ bmRequests[r].url = ""
     THEN bmStatus' = [ bmStatus EXCEPT ![r] = 400 ] /\ bmPc' = [ bmPc EXCEPT ![r] = "done" ]
     ELSE bmPc' = [ bmPc EXCEPT ![r] = "awaitFindOne" ] /\ UNCHANGED bmStatus
  /\ UNCHANGED << bmRequests, bookmarks >>
  /\ UNCHANGED << requestVars, rankVars, newsVars >>

\* findOne answers: 409 if a document matched, else the handler goes on to
\* `await Bookmark.create`.
FindOneReturns(r) ==
  /\ bmPc[r] = "awaitFindOne"
  /\ IF FindOne(bmRequests[r].user, bmRequests[r].url) # {}
     THEN bmStatus' = [ bmStatus EXCEPT ![r] = 409 ] /\ bmPc' = [ bmPc EXCEPT ![r] = "done" ]
     ELSE bmPc' = [ bmPc EXCEPT ![r] = "awaitCreate" ] /\ UNCHANGED bmStatus
  /\ UNCHANGED << bmRequests, bookmarks >>
  /\ UNCHANGED << requestVars, rankVars, newsVars >>

\* create answers: the document is in the collection, the response is 201.
CreateReturns(r) ==
  /\ bmPc[r] = "awaitCreate"
  /\ bookmarks' = Insert(r)
  /\ bmStatus' = [ bmStatus EXCEPT ![r] = 201 ]
  /\ bmPc' = [ bmPc EXCEPT ![r] = "done" ]
  /\ UNCHANGED bmRequests
  /\ UNCHANGED << requestVars, rankVars, newsVars >>

\* The database rejects the pending call: the catch answers 500.
DatabaseFails(r) ==
  /\ bmPc[r] \in { "awaitFindOne", "awaitCreate" }
  /\ bmStatus' = [ bmStatus EXCEPT ![r] = 500 ]
  /\ bmPc' = [ bmPc EXCEPT ![r] = "done" ]
  /\ UNCHANGED << bmRequests, bookmarks >>
  /\ UNCHANGED << requestVars, rankVars, newsVars >>

\* MaxRequests create requests have arrived, none handled yet, the collection empty.
InitBookmarks ==
  /\ endpoint = "bookmarks" /\ url = NoUrl /\ rawText = NoText
  /\ FreshHandler
  /\ RankIdle /\ NewsIdle
  /\ bmRequests \in [ 1..MaxRequests -> BookmarkRequests ]
  /\ bmPc = [ r \in 1..MaxRequests |-> "start" ]
  /\ bmStatus = [ r \in 1..MaxRequests |-> 0 ]
  /\ bookmarks = {}

NextBookmarks ==
  \/ \E r \in 1..MaxRequests : CreateStart(r)
  \/ \E r \in 1..MaxRequests : FindOneReturns(r)
  \/ \E r \in 1..MaxRequests : CreateReturns(r)
  \/ \E r \in 1..MaxRequests : DatabaseFails(r)

SpecBookmarks == InitBookmarks /\ [][NextBookmarks]_vars

----------------------------------------------------------------------------
(* News (routes/news): GET / with its fallback over the providers.  The
   country filter changes only the articles of the answer and is left out. *)

NEWSDATA == << "n", "e", "w", "s", "d", "a", "t", "a" >>

NEWSAPI == << "n", "e", "w", "s", "a", "p", "i" >>

MEDIASTACK == << "m", "e", "d", "i", "a", "s", "t", "a", "c", "k" >>

GNEWS == << "g", "n", "e", "w", "s" >>

HACKERNEWS == << "h", "a", "c", "k", "e", "r", "n", "e", "w", "s" >>

AUTO == << "a", "u", "t", "o" >>

\* const order = ['newsdata', 'newsapi', 'mediastack', 'gnews', 'hackernews']
order == << NEWSDATA, NEWSAPI, MEDIASTACK, GNEWS, HACKERNEWS >>

\* The values of req.query.provider explored ("auto" is the default).
ProviderParams ==
  { AUTO, << >>, NEWSDATA, NEWSAPI, MEDIASTACK, GNEWS, HACKERNEWS,
    << "G", "N", "e", "w", "s" >>,
    << "A", "U", "T", "O" >>,
    << "b", "i", "n", "g" >> }

\* The providers whose fetcher throws without an API key (tryHackerNews needs none).
KeyedProviders == { NEWSDATA, NEWSAPI, MEDIASTACK, GNEWS }

\* Array.prototype.includes
Includes(list, x) == \E k \in 1..Len(list) : list[k] = x

\* The list `attempts`: the requested provider, lower-cased, unless it is empty
\* or exactly 'auto'; then the names of `order` not yet in the list.
BuildAttempts(provider) ==
  LET first == IF Len(provider) > 0 /\ provider # AUTO
               THEN << ToLowerCase(provider) >> ELSE << >>
  IN  first \o SelectSeq(order, LAMBDA p : ~Includes(first, p))

(* What a provider's server may do with a fetch: answer a JSON body with a
   list of n articles, answer a JSON body without the list, answer a status
   that is not ok, answer a body that is not JSON, or not answer (fetch
   rejects). *)
Answers ==
  { [ kind |-> "list", n |-> 0 ], [ kind |-> "list", n |-> 2 ],
    [ kind |-> "nolist", n |-> 0 ], [ kind |-> "notOk", n |-> 0 ],
    [ kind |-> "notJson", n |-> 0 ], [ kind |-> "rejects", n |-> 0 ] }

\* The fetcher of provider p returns (does not throw) on answer a: only
\* tryNewsData insists on the list, the others take `|| []`.
Returns(p, a) == a.kind = "list" \/ (a.kind = "nolist" /\ p # NEWSDATA)

\* res.json({ provider: p, articles: out })
NewsRespond(p, n) ==
  /\ newsStatus' = 200 /\ newsNamed' = p /\ newsArticles' = n /\ newsPc' = "done"
  /\ UNCHANGED << attemptIdx, failedAttempts >>

\* The catch of the loop, then its next round, or 502 after the last one.
NewsCatch ==
  /\ failedAttempts' = failedAttempts \cup { attempts[attemptIdx] }
  /\ IF attemptIdx < Len(attempts)
     THEN /\ attemptIdx' = attemptIdx + 1 /\ newsPc' = "loop"
          /\ UNCHANGED << newsStatus, newsNamed, newsArticles >>
     ELSE /\ newsStatus' = 502 /\ newsPc' = "done"
          /\ UNCHANGED << attemptIdx, newsNamed, newsArticles >>

\* The handler up to its loop.
NewsStart ==
  /\ newsPc = "start" /\ endpoint = "news"
  /\ attempts' = BuildAttempts(newsProvider)
  /\ attemptIdx' = 1
  /\ newsPc' = "loop"
  /\ UNCHANGED << newsProvider, newsKeys, contacted, failedAttempts, fetchedOk,
                  newsStatus, newsNamed, newsArticles >>
  /\ UNCHANGED << requestVars, rankVars, bookmarkVars >>

(* One round of the loop up to its await: a name that is none of the five
   leaves `articles` at [] and is answered at once; a fetcher without its key
   throws; otherwise fetch is called. *)
NewsTry ==
  /\ newsPc = "loop"
  /\ LET p == attempts[attemptIdx]
     IN  IF ~Includes(order, p)
         THEN NewsRespond(p, 0) /\ UNCHANGED contacted
         ELSE IF p \in KeyedProviders /\ p \notin newsKeys
         THEN NewsCatch /\ UNCHANGED contacted
         ELSE /\ contacted' = Append(contacted, p)
              /\ newsPc' = "awaitFetch"
              /\ UNCHANGED << attemptIdx, failedAttempts, newsStatus, newsNamed,
                              newsArticles >>
  /\ UNCHANGED << newsProvider, newsKeys, attempts, fetchedOk >>
  /\ UNCHANGED << requestVars, rankVars, bookmarkVars >>

\* The provider's server has answered, or fetch has rejected.
NewsFetchReturns ==
  /\ newsPc = "awaitFetch"
  /\ \E a \in Answers :
       LET p == attempts[attemptIdx]
       IN  IF Returns(p, a)
           THEN NewsRespond(p, a.n) /\ fetchedOk' = fetchedOk \cup { p }
           ELSE NewsCatch /\ UNCHANGED fetchedOk
  /\ UNCHANGED << newsProvider, newsKeys, attempts, contacted >>
  /\ UNCHANGED << requestVars, rankVars, bookmarkVars >>

\* A news request has arrived; any set of API keys is configured.
InitNews ==
  /\ endpoint = "news" /\ url = NoUrl /\ rawText = NoText
  /\ FreshHandler
  /\ RankIdle /\ BookmarksIdle
  /\ newsProvider \in ProviderParams
  /\ newsKeys \in SUBSET KeyedProviders
  /\ newsPc = "start" /\ attempts = << >> /\ attemptIdx = 0
  /\ contacted = << >> /\ failedAttempts = {} /\ fetchedOk = {}
  /\ newsStatus = 0 /\ newsNamed = << >> /\ newsArticles = 0

NextNews ==
  \/ NewsStart
  \/ NewsTry
  \/ NewsFetchReturns

SpecNews == InitNews /\ [][NextNews]_vars

----------------------------------------------------------------------------
(* Properties *)

UrlGiven == url \notin { NoUrl, EmptyUrl }

Waiting == pc \in { "awaitHeaders", "readBody", "awaitText" }

(* C1: on both routes a request whose remote response is not complete when
   the 8-second deadline has passed is cancelled and answered 504: no handler
   is still waiting for the remote, for headers or for body, after the
   deadline, and a handler ended by the deadline answers 504. *)
C1_DeadlineBoundsEveryWait ==
  /\ Waiting => now <= TIMEOUT_MS
  /\ thrown = "AbortError" => status = 504

(* C2: the GET is issued only after the checks of the url have accepted it; a
   url they reject (malformed, a scheme other than http/https, localhost or
   *.localhost, a disallowed IP literal) is answered 400 and never fetched. *)
C2_FetchOnlyAfterGuardAccepts ==
  /\ fetchIssued => UrlGiven /\ Guard(url) = "accept"
  /\ (UrlGiven /\ Guard(url) # "accept" /\ pc # "start") =>
       /\ pc = "done" /\ status = 400 /\ error = Guard(url)
       /\ ~fetchIssued /\ upstream = "none" /\ timer = "unset"
  /\ (UrlGiven /\ pc # "start") =>
       LET rejectedClass ==
             \/ ~url.wellFormed
             \/ url.scheme \notin Schemes
             \/ /\ url.host.kind = "name"
                /\ \/ ToLowerCase(url.host.chars) = LocalhostChars
                   \/ EndsWith(ToLowerCase(url.host.chars), << "." >> \o LocalhostChars)
             \/ /\ url.host.kind = "ipv4"
                /\ \/ url.host.octets[1] \in { 10, 127 }
                   \/ << url.host.octets[1], url.host.octets[2] >>
                        \in { << 169, 254 >>, << 192, 168 >> }
                   \/ url.host.octets[1] = 172 /\ url.host.octets[2] \in 16..31
       IN  rejectedClass => status = 400 /\ ~fetchIssued

C2_RejectedUrlAnswered400 ==
  /\ UrlGiven /\ url.wellFormed /\ url.host.kind = "name"
  /\ Guard(url) = "Disallowed host"
  /\ pc = "done" /\ status = 400 /\ ~fetchIssued

IsLoopbackOrUniqueLocal(chars) ==
  \/ chars = << ":", ":", "1" >>
  \/ chars = << "0", ":", "0", ":", "0", ":", "0", ":", "0", ":", "0", ":", "0", ":", "1" >>
  \/ StartsWith(chars, << "f", "c" >>)
  \/ StartsWith(chars, << "f", "d" >>)

(* C3: a url whose host is the IPv6 loopback literal (::1) or an IPv6
   literal of fc00::/7 (written fc.. or fd..) is answered 400 "Disallowed IP"
   and never fetched. *)
C3_IPv6LoopbackAndUniqueLocalRejected ==
  (/\ UrlGiven /\ url.wellFormed /\ url.scheme \in Schemes
   /\ url.host.kind = "ipv6"
   /\ IsLoopbackOrUniqueLocal(ToLowerCase(url.host.chars)))
  => /\ ~fetchIssued
     /\ pc # "start" => pc = "done" /\ status = 400 /\ error = "Disallowed IP"

(* C4: an IPv4 literal a.b.c.d is answered 400 "Disallowed IP" exactly when
   a = 10, a = 127, a.b = 169.254, a.b = 192.168 or a = 172 with b in 16..31;
   every other IPv4 literal is accepted and fetched. *)
C4_IPv4PrivateRangesExactly ==
  (/\ UrlGiven /\ url.wellFormed /\ url.scheme \in Schemes
   /\ url.host.kind = "ipv4" /\ pc # "start")
  => LET a == url.host.octets[1]
         b == url.host.octets[2]
         private == \/ a = 10
                    \/ a = 127
                    \/ a = 169 /\ b = 254
                    \/ a = 192 /\ b = 168
                    \/ a = 172 /\ 16 <= b /\ b <= 31
     IN  IF private
         THEN pc = "done" /\ status = 400 /\ error = "Disallowed IP" /\ ~fetchIssued
         ELSE pc = "awaitHeaders" /\ status = 0 /\ fetchIssued

C4_UpperEdgeOf172Rejected ==
  /\ url = Url("https", V4Host(172, 31, 255, 255))
  /\ pc = "done" /\ status = 400 /\ error = "Disallowed IP" /\ ~fetchIssued

(* C5: on both routes a body whose text passes the ceiling of the route
   (200 KiB fetch-article, 300 KiB summarize) is cancelled and answered 413,
   not 504, 500 or 200. *)
C5_OversizeBodyAnswered413 ==
  (pc = "done" /\ textLen > MaxBytes(endpoint)) => aborted /\ status = 413

(* C6, as claimed: in every state reached while the body is read, and in
   every returned text, the accumulated text is no longer than the ceiling. *)
C6_AccumulatedNeverOverCeiling ==
  /\ textLen <= MaxBytes(endpoint)
  /\ status = 200 => outLen <= MaxBytes(endpoint) /\ Len(text) <= MaxBytes(endpoint)

(* C6, amended: when the body is read chunk by chunk, the accumulated text
   is no longer than the ceiling of the route while a further chunk is
   awaited; it is longer only once the chunk that crossed the ceiling has
   been appended, and then the transfer is cancelled and the request has
   ended without returning a text.  Every returned text is no longer than
   the ceiling. *)
C6_OverCeilingOnlyWhenCancelled ==
  /\ Waiting => textLen <= MaxBytes(endpoint)
  /\ status = 200 =>
       /\ textLen <= MaxBytes(endpoint)
       /\ outLen <= textLen
       /\ fetchIssued => Len(text) <= textLen
  /\ textLen > MaxBytes(endpoint) =>
       pc = "done" /\ aborted /\ status \in { 413, 500 } /\ outLen = 0 /\ text = << >>

C6_ReadingAtTheCeiling ==
  pc = "readBody" /\ nChunks > 1 /\ textLen = MaxBytes(endpoint)

(* C7: on both routes a non-2xx upstream status and a transport error of
   the GET are answered 502. *)
C7_UpstreamFailureAnswered502 ==
  (pc = "done" /\ upstream \in { "non2xx", "neterror" }) =>
    status = 502 /\ error = "Failed to fetch remote"

(* C8: summarize without url and with a text that is given but empty, or
   empty once trimmed, answers 422; it answers 400 only when url and text
   are both absent. *)
C8_EmptyTextAnswered422 ==
  (endpoint = "summarize" /\ ~UrlGiven /\ pc = "done") =>
    /\ (rawText.given /\ Len(Trim(rawText.chars)) = 0) => status = 422
    /\ status = 400 => ~rawText.given

NonSpace(s) == SelectSeq(s, LAMBDA c : ~IsSpace(c))

(* C9: a text of 1..3 sentences (after the cap of 60) is answered with all
   its sentences, in their order, joined by one space each: nothing but
   white space is lost, segmenting the summary gives the same sentences,
   and neither buildSentenceVectors nor textRank is called. *)
C9_FastPathJoinsAllSentences ==
  (/\ pc = "done" /\ Len(Trim(text)) > 0
   /\ Len(Slice(splitSentences(text), SENTENCE_CAP)) <= 3)
  => /\ status = 200 /\ error = ""
     /\ Len(sentences) \in 1..3
     /\ sentences = splitSentences(text)
     /\ ~vectorized /\ ~rankerCalled /\ ranked = << >>
     /\ NonSpace(summary) = NonSpace(text)
     /\ splitSentences(summary) = sentences
     /\ summary = JoinSpace(sentences)

C9_ThreeSentencesReturnedWhole ==
  /\ pc = "done" /\ status = 200
  /\ Len(sentences) = 3 /\ sentences[1] # sentences[2]
  /\ ~rankerCalled

ClaimedCount(n) == IF n < 10 THEN 1 ELSE IF n < 15 THEN 2 ELSE 3

(* C10: with N in 4..60 sentences the summary has exactly
   clamp(floor(N * 0.2), 1, 3) sentences (1 below N = 10, 2 below N = 15,
   3 from there), they are the first entries of the ranking, and they are
   emitted in strictly ascending original index, whatever the ranking. *)
C10_TopCountInTextOrder ==
  (pc = "done" /\ Len(sentences) >= 4)
  => LET n == Len(sentences)
         count == ClaimedCount(n)
     IN  /\ n <= SENTENCE_CAP /\ status = 200
         /\ { ranked[i] : i \in 1..Len(ranked) } = 0..(n - 1) /\ Len(ranked) = n
         /\ Len(top) = count
         /\ \A i, j \in 1..count : i < j => top[i] < top[j]
         /\ { top[i] : i \in 1..count } = { ranked[i] : i \in 1..count }
         /\ summary = JoinSpace([ i \in 1..count |-> sentences[top[i] + 1] ])

C10_CappedTextReordered ==
  /\ pc = "done" /\ Len(sentences) = SENTENCE_CAP
  /\ Len(top) = 3 /\ ranked[1] > ranked[2] /\ ranked[2] > ranked[3]
  /\ Len(splitSentences(text)) > SENTENCE_CAP

\* The new score of sentence i as C11 writes it, from the scores in hand:
\* (1 - d) / N plus d * (sim[j][i] / rowSum[j]) * score[j] over every j with
\* rowSum[j] # 0 and sim[j][i] > 0, in any order.
ClaimedScore(i) ==
  BaseScore(Len(scores)) +
  SumFn([ j \in { k \in 1..Len(scores) : rowSum[k] # 0 /\ sim[k][i] > 0 } |->
            Mul(Mul(Damping, Div(sim[j][i], rowSum[j])), scores[j]) ])

(* C11: for N >= 2, every iteration of textRank leaves in every score[i] the
   value (1 - d) / N + d * sum over the j with rowSum[j] # 0 and sim[j][i] > 0
   of (sim[j][i] / rowSum[j]) * score[j], taken over the scores the iteration
   started with, and no term is divided by a row sum of zero (on the
   symmetric, zero-diagonal matrices textRank builds; numbers rounded to
   1 / One). *)
C11_IterationFollowsFormula ==
  [][ it' = it + 1 =>
        /\ Len(scores) >= 2
        /\ scores' = [ i \in 1..Len(scores) |-> ClaimedScore(i) ]
        /\ ~dividedByZero' ]_vars

\* C11 witness: a second iteration is over on four sentences or more, one of
\* them with a zero row sum and one whose score has left (1 - d) / N and 1 / N.
C11_IsolatedAndConnectedIterated ==
  /\ pc = "iterate" /\ it >= 2 /\ Len(scores) >= 4
  /\ \E i \in 1..Len(scores) : rowSum[i] = 0 /\ scores[i] = BaseScore(Len(scores))
  /\ \E i \in 1..Len(scores) :
       /\ rowSum[i] # 0
       /\ scores[i] \notin { BaseScore(Len(scores)), InitialScores(Len(scores))[i] }

\* Sentence i (1-based) has no token in common with any other sentence.
SharesNoToken(i) ==
  \A j \in 1..Len(vectors) : j # i => DOMAIN vectors[i] \cap DOMAIN vectors[j] = {}

\* Sentence i has positive similarity to some other sentence.
Connected(i) == \E j \in 1..Len(sim) : j # i /\ sim[i][j] > 0

\* The place of the entry with idx x in textRank's result.
PlaceOf(x) == CHOOSE k \in 1..Len(ranked) : ranked[k] = x

(* C12: with N >= 4 sentences, a sentence that shares no token with any other
   has a strictly lower score, and a later place in textRank's result, than
   every sentence with positive similarity to some other; once count or more
   such connected sentences exist it is not in the summary; and for the text
   about cats, dogs and the sky the summary is one sentence of the text, not
   the one about the sky. *)
C12_IsolatedSentenceRankedLast ==
  (pc \in { "ranked", "done" } /\ Len(sentences) >= 4) =>
    LET n         == Len(sentences)
        isolated  == { i \in 1..n : SharesNoToken(i) }
        connected == { i \in 1..n : Connected(i) }
    IN  /\ \A i \in isolated : \A j \in connected :
             scores[i] < scores[j] /\ PlaceOf(i - 1) > PlaceOf(j - 1)
        /\ (pc = "done" /\ Cardinality(connected) >= topCount(n)) =>
             \A i \in isolated : \A k \in 1..Len(top) : top[k] # i - 1
        /\ (pc = "done" /\ sentences = splitSentences(CatsText)) =>
             /\ n = 5 /\ Len(top) = 1
             /\ \E i \in 1..4 : summary = sentences[i]
             /\ summary # sentences[5]

\* C12 witness: a response for four sentences or more whose first sentence
\* shares no token with the others, two of which share one; the first sentence,
\* which leads every tie, is not in the summary.
C12_LeadingIsolatedSentenceLeftOut ==
  /\ pc = "done" /\ status = 200 /\ Len(sentences) >= 4
  /\ SharesNoToken(1) /\ \E j \in 2..Len(sentences) : Connected(j)
  /\ \A k \in 1..Len(top) : top[k] # 0
  /\ Len(top) = topCount(Len(sentences))

\* The requests with a valid token, a title and a url for user u and url x.
RequestsFor(u, x) ==
  { r \in DOMAIN bmRequests :
      bmRequests[r].user = u /\ bmRequests[r].url = x /\ bmRequests[r].title }

(* C13: whatever the interleaving of the create requests, the collection never
   holds two bookmarks with the same (userId, url), and of the requests for
   one (userId, url) at most one is answered 201, every other one the
   database answered being answered 409. *)
C13_OneBookmarkPerUserAndUrl ==
  /\ \A b1, b2 \in bookmarks : (b1.userId = b2.userId /\ b1.url = b2.url) => b1 = b2
  /\ \A u \in Users : \A x \in { "a", "b" } :
       /\ Cardinality({ r \in RequestsFor(u, x) : bmStatus[r] = 201 }) <= 1
       /\ (\A r \in RequestsFor(u, x) : bmPc[r] = "done" /\ bmStatus[r] # 500) =>
            Cardinality({ r \in RequestsFor(u, x) : bmStatus[r] = 409 })
              = Max(0, Cardinality(RequestsFor(u, x)) - 1)

\* The place of provider p in the list `attempts`.
AttemptOf(p) == CHOOSE k \in 1..Len(attempts) : attempts[k] = p

(* C14: the providers are contacted one at a time, in the order of the
   attempts (the requested provider first unless it is 'auto', then newsdata,
   newsapi, mediastack, gnews, hackernews), each at most once; a response
   that names a provider names the one contacted last, whose fetch did not
   fail, every attempt before it having failed; and 502 is answered only
   when every attempt failed. *)
C14_FirstWorkingProviderAnswers ==
  /\ newsPc # "start" =>
       /\ \A i, j \in 1..Len(attempts) : i # j => attempts[i] # attempts[j]
       /\ SelectSeq(attempts, LAMBDA p : Includes(order, p) /\ p # attempts[1])
            = SelectSeq(order, LAMBDA p : p # attempts[1])
  /\ \A i, j \in 1..Len(contacted) :
       i < j => AttemptOf(contacted[i]) < AttemptOf(contacted[j])
  /\ newsPc = "awaitFetch" => contacted[Len(contacted)] = attempts[attemptIdx]
  /\ newsStatus = 200 =>
       /\ newsNamed \in fetchedOk
       /\ contacted[Len(contacted)] = newsNamed
       /\ \A k \in 1..(AttemptOf(newsNamed) - 1) : attempts[k] \in failedAttempts
  /\ newsStatus = 502 => \A k \in 1..Len(attempts) : attempts[k] \in failedAttempts

====
